---- MODULE Spec2Model ----
(***************************************************************************)
(* Model of bot.py: a Telethon userbot (one asyncio event loop) and a      *)
(* Flask server (one thread per HTTP request) that share the module-level  *)
(* dict pending_payments.                                                  *)
(*                                                                         *)
(* The event loop runs handle_pay_command and the notify_* coroutines; the *)
(* HTTP threads run webhook() and cancel().  HTTP threads interleave at    *)
(* every access to pending_payments: the dict is used without a lock.      *)
(***************************************************************************)
EXTENDS Integers, Sequences, FiniteSets, TLC

(* ---------------------------- bounds ----------------------------------- *)
MaxIds     == 2     \* invoice ids (uuid4 values) handed out
MaxReq     == 2     \* HTTP requests served, one Flask thread each
MaxAmount  == 1     \* amounts typed in a .pay command: 0..MaxAmount
MaxPeers   == 1     \* users, and chats, a .pay command can come from

Ids     == 1..MaxIds
Threads == 1..MaxReq
Amounts == 0..MaxAmount
Chats   == 1..MaxPeers
Users   == 1..MaxPeers
Askers  == 1..(MaxPeers + 1)    \* whoever sends .payments: a payer or not

None == "None"      \* Python None
NoId == 0           \* request.args.get('invoiceId') when the parameter is absent

(* payment_info before line 124 / 210 has assigned it. *)
NoInfo == [user_id |-> 0, chat_id |-> 0, amount |-> 0]

(* verification.get('amount', ...) when the response has no 'amount'. *)
NoAmount == -1

(* What verify_zinipay_payment returns when it returns None (lines 105,    *)
(* 109); a verification is represented by the status and the amount it     *)
(* carries.                                                                *)
NoVerification == [status |-> None, amount |-> NoAmount]

(* A task whose message has not been composed yet. *)
NoMsg == [chat_id |-> 0, amount |-> NoAmount]

(* Request attributes.  The handlers read only the invoiceId query param   *)
(* and (through get_json) whether the body parses; the signature header    *)
(* and the body's status token are carried by the request all the same.    *)
Signatures == {"valid", "invalid", "missing"}
Bodies     == {"completed", "failed", "nostatus", "malformed"}

(* Status tokens the gateway's verify endpoint reports for an invoice.     *)
GatewayStatuses == {"PENDING", "COMPLETED", "FAILED"}

VARIABLES
    pending_payments,   \* the dict of line 34: invoice id -> record
    issued,             \* number of uuid4 invoice ids generated so far
    gateway,            \* [Ids -> "NONE" or a GatewayStatus]: ZiniPay's view
    http,               \* [Threads -> request/handler state of that thread]
    tasks,              \* every coroutine handed to client.loop, in order
    loopState,          \* "running" | "stopped": client.loop
    cmd                 \* the .payments command the loop is handling

vars == <<pending_payments, issued, gateway, http, tasks, loopState, cmd>>

IdleThread ==
    [pc |-> "idle", kind |-> None, invoice_id |-> NoId, sig |-> None,
     body |-> None, payment_info |-> NoInfo,
     verification |-> NoVerification, resp |-> 0]

(* `invoice_id in pending_payments` *)
InPending(invoice_id) == invoice_id \in DOMAIN pending_payments

(* `if invoice_id and invoice_id in pending_payments` (lines 123, 209) *)
Known(invoice_id) == invoice_id # NoId /\ InPending(invoice_id)

(* verify_zinipay_payment: the parsed JSON of a 200 response, or None when  *)
(* the call fails, times out or returns another status code.               *)
verify_zinipay_payment(invoice_id) ==
    {NoVerification} \cup
    {[status |-> gateway[invoice_id], amount |-> a] :
        a \in {NoAmount} \cup Amounts}

(* The test of line 129 without its status comparison: any verification  *)
(* the gateway returned counts as a completed payment.                     *)
IsCompleted_AnyVerification(verification) ==
    verification # NoVerification

(* `verification and verification.get('status') == 'COMPLETED'` (line 129) *)
IsCompleted(verification) ==
    /\ verification # NoVerification
    /\ verification.status = "COMPLETED"

(* asyncio.run_coroutine_threadsafe(coro, client.loop): the coroutine is    *)
(* appended to the loop's ready queue; inv is a history field naming the    *)
(* invoice the hand-off was made for.                                       *)
run_coroutine_threadsafe(coro, payment_info, verification, inv) ==
    Append(tasks, [coro |-> coro, payment_info |-> payment_info,
                   verification |-> verification, inv |-> inv,
                   st |-> "queued", msg |-> NoMsg])

(* `pending_payments[invoice_id] = info` (line 361) *)
SetPending(invoice_id, info) ==
    [i \in DOMAIN pending_payments \cup {invoice_id} |->
        IF i = invoice_id THEN info ELSE pending_payments[i]]

(* `del pending_payments[invoice_id]` *)
DelPending(invoice_id) ==
    [i \in DOMAIN pending_payments \ {invoice_id} |-> pending_payments[i]]

(* No .payments command received yet. *)
NoCommand ==
    [pc |-> "idle", user_id |-> 0, used |-> 0, message |-> {},
     reply |-> None, listed |-> {}]

Init ==
    /\ cmd = NoCommand
    /\ pending_payments = [i \in {} |-> NoInfo]
    /\ issued = 0
    /\ gateway = [i \in Ids |-> "NONE"]
    /\ http = [t \in Threads |-> IdleThread]
    /\ tasks = << >>
    /\ loopState = "running"

(* ------------------------- event loop side ----------------------------- *)

(* create_zinipay_payment with a constant in place of uuid4(): every      *)
(* payment gets the same invoice id.                                       *)
create_zinipay_payment_ReusesId(ok) ==
    IF ok THEN [success |-> TRUE, invoice_id |-> 1]
          ELSE [success |-> FALSE, invoice_id |-> NoId]

(* create_zinipay_payment: a fresh uuid4 is drawn before the HTTP call;     *)
(* ok is whether the gateway answered 200 with a true 'status'.            *)
create_zinipay_payment(ok) ==
    IF ok THEN [success |-> TRUE, invoice_id |-> issued + 1]
          ELSE [success |-> FALSE, invoice_id |-> NoId]

(* handle_pay_command without the `amount <= 0` test of line 333. *)
handle_pay_command_NoAmountCheck(amount, user_id, chat_id, ok) ==
    /\ loopState = "running"
    /\ issued < MaxIds
    /\ LET result == create_zinipay_payment(ok) IN
       /\ issued' = issued + 1
       /\ IF result.success
          THEN /\ pending_payments' =
                    SetPending(result.invoice_id,
                        [user_id |-> user_id, chat_id |-> chat_id,
                         amount |-> amount])
               /\ gateway' = [gateway EXCEPT
                                ![result.invoice_id] = "PENDING"]
          ELSE UNCHANGED <<cmd, pending_payments, gateway>>
    /\ UNCHANGED <<cmd, http, tasks, loopState>>

(* handle_pay_command: `.pay <amount>` from user_id in chat_id. *)
handle_pay_command(amount, user_id, chat_id, ok) ==
    /\ loopState = "running"
    /\ IF amount <= 0
       THEN UNCHANGED <<cmd, pending_payments, issued, gateway>>
       ELSE /\ issued < MaxIds
            /\ LET result == create_zinipay_payment(ok) IN
               /\ issued' = issued + 1
               /\ IF result.success
                  THEN /\ pending_payments' =
                            SetPending(result.invoice_id,
                                [user_id |-> user_id, chat_id |-> chat_id,
                                 amount |-> amount])
                       /\ gateway' = [gateway EXCEPT
                                        ![result.invoice_id] = "PENDING"]
                  ELSE UNCHANGED <<cmd, pending_payments, gateway>>
    /\ UNCHANGED <<cmd, http, tasks, loopState>>

(* notify_payment_success stating the record's amount whatever the      *)
(* verification carries.                                                   *)
notify_payment_success_RecordAmount(payment_info, verification) ==
    [chat_id |-> payment_info.chat_id, amount |-> payment_info.amount]

(* notify_payment_success, lines 281-297: the chat the message goes to and *)
(* the amount it states.                                                   *)
notify_payment_success(payment_info, verification) ==
    [chat_id |-> payment_info.chat_id,
     amount  |-> IF verification.amount # NoAmount
                 THEN verification.amount
                 ELSE payment_info.amount]

(* notify_payment_cancelled, lines 307-319. *)
notify_payment_cancelled(payment_info) ==
    [chat_id |-> payment_info.chat_id, amount |-> payment_info.amount]

(* The message a scheduled coroutine composes before its send. *)
Message(task) ==
    IF task.coro = "notify_payment_success"
    THEN notify_payment_success(task.payment_info, task.verification)
    ELSE notify_payment_cancelled(task.payment_info)

(* The loop takes the oldest ready coroutine and runs it up to its await   *)
(* on client.send_message.                                                 *)
FirstQueued ==
    CHOOSE k \in DOMAIN tasks :
        /\ tasks[k].st = "queued"
        /\ \A j \in DOMAIN tasks : tasks[j].st = "queued" => k <= j

NotifyStart ==
    /\ loopState = "running"
    /\ \E k \in DOMAIN tasks : tasks[k].st = "queued"
    /\ tasks' = [tasks EXCEPT ![FirstQueued].st = "sending",
                              ![FirstQueued].msg = Message(tasks[FirstQueued])]
    /\ UNCHANGED <<cmd, pending_payments, issued, gateway, http, loopState>>

(* A notify coroutine that schedules itself again when the send raised. *)
NotifyFinish_Retries(k, ok) ==
    /\ loopState = "running"
    /\ k \in DOMAIN tasks
    /\ tasks[k].st = "sending"
    /\ tasks' = [tasks EXCEPT ![k].st = IF ok THEN "sent" ELSE "queued"]
    /\ UNCHANGED <<cmd, pending_payments, issued, gateway, http, loopState>>

(* notify_payment_success / notify_payment_cancelled after the await:      *)
(* the send went through, or raised and was logged by the except clause.   *)
NotifyFinish(k, ok) ==
    /\ loopState = "running"
    /\ k \in DOMAIN tasks
    /\ tasks[k].st = "sending"
    /\ tasks' = [tasks EXCEPT ![k].st = IF ok THEN "sent" ELSE "failed"]
    /\ UNCHANGED <<cmd, pending_payments, issued, gateway, http, loopState>>

(* ---- handle_payments_command: `.payments` sent by user_id ------------- *)

(* `not pending_payments` / len(pending_payments) *)
DictLen == Cardinality(DOMAIN pending_payments)

(* Line 403-407: the emptiness test. *)
PaymentsStart(user_id) ==
    /\ loopState = "running"
    /\ cmd.pc \in {"idle", "done"}
    /\ cmd' = IF DictLen = 0
              THEN [NoCommand EXCEPT !.pc = "done", !.user_id = user_id,
                                     !.reply = "empty"]
              ELSE [NoCommand EXCEPT !.pc = "items", !.user_id = user_id]
    /\ UNCHANGED <<pending_payments, issued, gateway, http, tasks, loopState>>

(* Line 409: pending_payments.items() and its iterator, which notes the    *)
(* size of the dict.                                                       *)
PaymentsItems ==
    /\ cmd.pc = "items"
    /\ cmd' = [cmd EXCEPT !.pc = "iter", !.used = DictLen]
    /\ UNCHANGED <<pending_payments, issued, gateway, http, tasks, loopState>>

(* Keys the iterator has not yielded yet; a dict yields in insertion       *)
(* order, which is the order of the ids.                                   *)
Unlisted ==
    {i \in DOMAIN pending_payments :
        \A r \in cmd.message : r.invoice_id # i}

NextItem ==
    CHOOSE i \in Unlisted : \A j \in Unlisted : i <= j

(* Lines 409-419: one turn of the for loop.  The iterator raises           *)
(* RuntimeError when the dict changed size since line 409, and the except  *)
(* clause replies with the error; at the end of the dict the message is    *)
(* sent.                                                                   *)
PaymentsNext ==
    /\ cmd.pc = "iter"
    /\ cmd' = IF DictLen # cmd.used
              THEN [cmd EXCEPT !.pc = "done", !.reply = "error"]
              ELSE IF Unlisted = {}
              THEN [cmd EXCEPT !.pc = "done", !.reply = "list",
                               !.listed = cmd.message]
              ELSE [cmd EXCEPT !.message = @ \cup
                        {[invoice_id |-> NextItem,
                          info |-> pending_payments[NextItem]]}]
    /\ UNCHANGED <<pending_payments, issued, gateway, http, tasks, loopState>>

(* The loop runs one handler at a time: handle_payments_command has no     *)
(* await between line 403 and line 415.                                    *)
LoopFree == cmd.pc \in {"idle", "done"}

(* main: run_until_complete returns (disconnect, KeyboardInterrupt, fatal   *)
(* error); the loop no longer runs while the daemon Flask thread goes on    *)
(* serving until the interpreter exits.                                     *)
LoopStop ==
    /\ loopState = "running"
    /\ loopState' = "stopped"
    /\ UNCHANGED <<cmd, pending_payments, issued, gateway, http, tasks>>

(* ---------------------------- gateway ---------------------------------- *)

(* The payer completes or fails the payment on ZiniPay's page. *)
GatewayResolve(i, s) ==
    /\ gateway[i] = "PENDING"
    /\ s \in {"COMPLETED", "FAILED"}
    /\ gateway' = [gateway EXCEPT ![i] = s]
    /\ UNCHANGED <<cmd, pending_payments, issued, http, tasks, loopState>>

(* --------------------------- HTTP threads ------------------------------ *)

(* Flask's threaded server starts one thread per request; threads are     *)
(* numbered in the order their requests arrive.                            *)
FreeThread(t) ==
    /\ http[t].pc = "idle"
    /\ \A u \in Threads : http[u].pc = "idle" => t <= u

(* A POST /webhook arrives and Flask gives it a thread. *)
WebhookArrive(t, invoice_id, sig, body) ==
    /\ FreeThread(t)
    /\ http' = [http EXCEPT ![t] =
                  [IdleThread EXCEPT !.pc = "wh_check", !.kind = "webhook",
                                     !.invoice_id = invoice_id,
                                     !.sig = sig, !.body = body]]
    /\ UNCHANGED <<cmd, pending_payments, issued, gateway, tasks, loopState>>

(* Lines 117-123: get_json raises on a body that does not parse, and the   *)
(* except clause answers 500; otherwise the membership test.               *)
WebhookCheck(t) ==
    /\ http[t].pc = "wh_check"
    /\ http' = [http EXCEPT ![t] =
         IF http[t].body = "malformed"
         THEN [@ EXCEPT !.pc = "done", !.resp = 500]
         ELSE IF Known(http[t].invoice_id)
         THEN [@ EXCEPT !.pc = "wh_lookup"]
         ELSE [@ EXCEPT !.pc = "done", !.resp = 200]]
    /\ UNCHANGED <<cmd, pending_payments, issued, gateway, tasks, loopState>>

(* Line 124: payment_info = pending_payments[invoice_id]; KeyError when    *)
(* another thread deleted the key since the test.                          *)
WebhookLookup(t) ==
    /\ http[t].pc = "wh_lookup"
    /\ http' = [http EXCEPT ![t] =
         IF InPending(http[t].invoice_id)
         THEN [@ EXCEPT !.pc = "wh_verify",
                        !.payment_info = pending_payments[http[t].invoice_id]]
         ELSE [@ EXCEPT !.pc = "done", !.resp = 500]]
    /\ UNCHANGED <<cmd, pending_payments, issued, gateway, tasks, loopState>>

(* Lines 127-129 and 139: the verify call and the test of its result. *)
WebhookVerify(t) ==
    /\ http[t].pc = "wh_verify"
    /\ \E verification \in verify_zinipay_payment(http[t].invoice_id) :
         http' = [http EXCEPT ![t] =
            IF IsCompleted(verification)
            THEN [@ EXCEPT !.pc = "wh_notify", !.verification = verification]
            ELSE [@ EXCEPT !.pc = "done", !.verification = verification,
                           !.resp = 200]]
    /\ UNCHANGED <<cmd, pending_payments, issued, gateway, tasks, loopState>>

(* webhook calling the client's send itself, on the HTTP thread, instead  *)
(* of handing the coroutine to the loop.                                   *)
WebhookNotify_SendsDirectly(t) ==
    /\ http[t].pc = "wh_notify"
    /\ tasks' = Append(tasks,
                  [coro |-> "notify_payment_success",
                   payment_info |-> http[t].payment_info,
                   verification |-> http[t].verification,
                   inv |-> http[t].invoice_id, st |-> "sent",
                   msg |-> NoMsg])
    /\ http' = [http EXCEPT ![t].pc = "wh_del"]
    /\ UNCHANGED <<cmd, pending_payments, issued, gateway, loopState>>

(* Lines 131-134. *)
WebhookNotify(t) ==
    /\ http[t].pc = "wh_notify"
    /\ tasks' = run_coroutine_threadsafe("notify_payment_success",
                    http[t].payment_info, http[t].verification,
                    http[t].invoice_id)
    /\ http' = [http EXCEPT ![t].pc = "wh_del"]
    /\ UNCHANGED <<cmd, pending_payments, issued, gateway, loopState>>

(* webhook waiting on the future of run_coroutine_threadsafe (.result())  *)
(* before it deletes the record and answers.                               *)
WebhookDel_WaitsForResult(t) ==
    /\ http[t].pc = "wh_del"
    /\ \A k \in DOMAIN tasks :
          tasks[k].inv = http[t].invoice_id => tasks[k].st \in {"sent", "failed"}
    /\ IF InPending(http[t].invoice_id)
       THEN /\ pending_payments' = DelPending(http[t].invoice_id)
            /\ http' = [http EXCEPT ![t].pc = "done", ![t].resp = 200]
       ELSE /\ UNCHANGED pending_payments
            /\ http' = [http EXCEPT ![t].pc = "done", ![t].resp = 500]
    /\ UNCHANGED <<cmd, issued, gateway, tasks, loopState>>

(* Lines 137-143: del, then 200; KeyError is caught and answered 500. *)
WebhookDel(t) ==
    /\ http[t].pc = "wh_del"
    /\ IF InPending(http[t].invoice_id)
       THEN /\ pending_payments' = DelPending(http[t].invoice_id)
            /\ http' = [http EXCEPT ![t].pc = "done", ![t].resp = 200]
       ELSE /\ UNCHANGED pending_payments
            /\ http' = [http EXCEPT ![t].pc = "done", ![t].resp = 500]
    /\ UNCHANGED <<cmd, issued, gateway, tasks, loopState>>

(* A GET /cancel arrives. *)
CancelArrive(t, invoice_id) ==
    /\ FreeThread(t)
    /\ http' = [http EXCEPT ![t] =
                  [IdleThread EXCEPT !.pc = "cn_check", !.kind = "cancel",
                                     !.invoice_id = invoice_id]]
    /\ UNCHANGED <<cmd, pending_payments, issued, gateway, tasks, loopState>>

(* Line 209. *)
CancelCheck(t) ==
    /\ http[t].pc = "cn_check"
    /\ http' = [http EXCEPT ![t] =
         IF Known(http[t].invoice_id)
         THEN [@ EXCEPT !.pc = "cn_lookup"]
         ELSE [@ EXCEPT !.pc = "done", !.resp = 200]]
    /\ UNCHANGED <<cmd, pending_payments, issued, gateway, tasks, loopState>>

(* Line 210; an uncaught KeyError makes Flask answer 500. *)
CancelLookup(t) ==
    /\ http[t].pc = "cn_lookup"
    /\ http' = [http EXCEPT ![t] =
         IF InPending(http[t].invoice_id)
         THEN [@ EXCEPT !.pc = "cn_notify",
                        !.payment_info = pending_payments[http[t].invoice_id]]
         ELSE [@ EXCEPT !.pc = "done", !.resp = 500]]
    /\ UNCHANGED <<cmd, pending_payments, issued, gateway, tasks, loopState>>

(* cancel deleting the record without the hand-off of lines 211-214. *)
CancelNotify_Skipped(t) ==
    /\ http[t].pc = "cn_notify"
    /\ http' = [http EXCEPT ![t].pc = "cn_del"]
    /\ UNCHANGED <<cmd, pending_payments, issued, gateway, tasks, loopState>>

(* Lines 211-214. *)
CancelNotify(t) ==
    /\ http[t].pc = "cn_notify"
    /\ tasks' = run_coroutine_threadsafe("notify_payment_cancelled",
                    http[t].payment_info, NoVerification, http[t].invoice_id)
    /\ http' = [http EXCEPT ![t].pc = "cn_del"]
    /\ UNCHANGED <<cmd, pending_payments, issued, gateway, loopState>>

(* Line 215 and the page returned at 264. *)
CancelDel(t) ==
    /\ http[t].pc = "cn_del"
    /\ IF InPending(http[t].invoice_id)
       THEN /\ pending_payments' = DelPending(http[t].invoice_id)
            /\ http' = [http EXCEPT ![t].pc = "done", ![t].resp = 200]
       ELSE /\ UNCHANGED pending_payments
            /\ http' = [http EXCEPT ![t].pc = "done", ![t].resp = 500]
    /\ UNCHANGED <<cmd, issued, gateway, tasks, loopState>>

(* One step of the handler running on thread t. *)
webhook(t) ==
    \/ WebhookCheck(t)
    \/ WebhookLookup(t)
    \/ WebhookVerify(t)
    \/ WebhookNotify(t)
    \/ WebhookDel(t)

cancel(t) ==
    \/ CancelCheck(t)
    \/ CancelLookup(t)
    \/ CancelNotify(t)
    \/ CancelDel(t)

(* The gateway's own callback: signed, with a body that parses. *)
GatewayWebhook(t, invoice_id) ==
    WebhookArrive(t, invoice_id, "valid", "completed")

(* Any POST to /webhook, from anyone: handled on its own, first thread. *)
AnyWebhook(t, invoice_id, sig, body) ==
    /\ t = 1
    /\ WebhookArrive(t, invoice_id, sig, body)

Next ==
    \/ \E amount \in Amounts, user_id \in Users, chat_id \in Chats,
          ok \in BOOLEAN : handle_pay_command(amount, user_id, chat_id, ok)
    \/ NotifyStart
    \/ \E k \in DOMAIN tasks, ok \in BOOLEAN : NotifyFinish(k, ok)
    \/ LoopStop
    \/ \E i \in Ids, s \in GatewayStatuses : GatewayResolve(i, s)
    \/ \E t \in Threads, invoice_id \in Ids \cup {NoId} :
            GatewayWebhook(t, invoice_id)
    \/ \E t \in Threads, invoice_id \in Ids \cup {NoId} :
            CancelArrive(t, invoice_id)
    \/ \E t \in Threads : webhook(t)
    \/ \E t \in Threads : cancel(t)

Spec == Init /\ [][Next]_vars

(* The HTTP threads and the running event loop keep taking steps. *)
FairSpec ==
    /\ Spec
    /\ \A t \in Threads : WF_vars(webhook(t)) /\ WF_vars(cancel(t))
    /\ WF_vars(NotifyStart)
    /\ WF_vars(\E k \in DOMAIN tasks, ok \in BOOLEAN : NotifyFinish(k, ok))

(* The webhook endpoint under requests of every shape: any signature      *)
(* header, any body.                                                       *)
NextWire ==
    \/ \E amount \in Amounts, user_id \in Users, chat_id \in Chats,
          ok \in BOOLEAN : handle_pay_command(amount, user_id, chat_id, ok)
    \/ NotifyStart
    \/ \E k \in DOMAIN tasks, ok \in BOOLEAN : NotifyFinish(k, ok)
    \/ \E i \in Ids, s \in GatewayStatuses : GatewayResolve(i, s)
    \/ \E t \in Threads, invoice_id \in Ids \cup {NoId},
          sig \in Signatures, body \in Bodies :
            AnyWebhook(t, invoice_id, sig, body)
    \/ \E t \in Threads : webhook(t)

SpecWire == Init /\ [][NextWire]_vars

(* The chat commands with the HTTP threads running beside them. *)
NextChat ==
    \/ \E amount \in Amounts, user_id \in Users, chat_id \in Chats,
          ok \in BOOLEAN :
            LoopFree /\ handle_pay_command(amount, user_id, chat_id, ok)
    \/ \E user_id \in Askers : PaymentsStart(user_id)
    \/ PaymentsItems
    \/ PaymentsNext
    \/ \E i \in Ids, s \in GatewayStatuses : GatewayResolve(i, s)
    \/ \E t \in Threads, invoice_id \in Ids \cup {NoId} :
            GatewayWebhook(t, invoice_id)
    \/ \E t \in Threads, invoice_id \in Ids \cup {NoId} :
            CancelArrive(t, invoice_id)
    \/ \E t \in Threads : webhook(t)
    \/ \E t \in Threads : cancel(t)

SpecChat == Init /\ [][NextChat]_vars

TypeOK ==
    /\ issued \in 0..MaxIds
    /\ loopState \in {"running", "stopped"}
    /\ Len(tasks) <= MaxReq
    /\ DOMAIN pending_payments \subseteq 1..issued

(* ------------------------------ claims --------------------------------- *)

(* Hand-offs made for invoice i with coroutine coro. *)
TasksFor(i, coro) ==
    {k \in DOMAIN tasks : tasks[k].inv = i /\ tasks[k].coro = coro}

(* Notifications of coroutine coro that have been sent. *)
TasksFor_Sent(coro) ==
    {k \in DOMAIN tasks : tasks[k].coro = coro /\ tasks[k].st = "sent"}

(* i was inserted by a pay command: the gateway knows it exactly then. *)
Inserted(i) == i \in Ids /\ gateway[i] # "NONE"

(* Thread t has answered a webhook request. *)
WebhookDone(t) == http[t].pc = "done" /\ http[t].kind = "webhook"

(* Thread t takes a step of its webhook handler. *)
WebhookStep(t) == http[t].kind = "webhook" /\ http'[t] # http[t]

(* A task the loop has run to its end (the send went out or raised). *)
Executed(k) == tasks[k].st \in {"sent", "failed"}

(* C1: for every invoice id exactly one notify_payment_success task is     *)
(* scheduled, however many webhook deliveries verified COMPLETED for it:   *)
(* never more than one, and one as soon as such a delivery was answered.   *)
C1_ExactlyOneSuccessTask ==
    \A i \in Ids :
        /\ Cardinality(TasksFor(i, "notify_payment_success")) <= 1
        /\ (\E t \in Threads : /\ WebhookDone(t)
                               /\ http[t].invoice_id = i
                               /\ http[t].verification.status = "COMPLETED")
              => Cardinality(TasksFor(i, "notify_payment_success")) = 1

(* C2: a webhook and a cancel for the same pending id never both resolve   *)
(* it: no id has a success task and a cancelled task.                      *)
C2_WebhookXorCancel ==
    \A i \in Ids :
        ~ /\ TasksFor(i, "notify_payment_success") # {}
          /\ TasksFor(i, "notify_payment_cancelled") # {}

(* C3: a webhook whose signature is incorrect or missing changes neither   *)
(* the store nor the scheduled notifications, and is answered 401.         *)
C3_BadSignatureRejected ==
    [][\A t \in Threads :
         (WebhookStep(t) /\ http[t].sig \in {"invalid", "missing"})
            => /\ pending_payments' = pending_payments
               /\ tasks' = tasks
               /\ (http'[t].pc = "done" => http'[t].resp = 401)]_vars

(* C4: a webhook for an id a pay command inserted is answered 200, also    *)
(* when the record is already resolved or is being resolved concurrently.  *)
C4_InsertedIdAnswered200 ==
    \A t \in Threads :
        (WebhookDone(t) /\ Inserted(http[t].invoice_id)
                        /\ http[t].body # "malformed")
            => http[t].resp = 200

(* C5: a webhook for an id that is not in the store is answered 404 and    *)
(* leaves the store and the scheduled notifications unchanged.             *)
C5_UnknownIdAnswered404 ==
    [][\A t \in Threads :
         (/\ WebhookStep(t)
          /\ http[t].pc = "wh_check"
          /\ http[t].body # "malformed"
          /\ http[t].invoice_id # NoId
          /\ ~InPending(http[t].invoice_id))
            => /\ pending_payments' = pending_payments
               /\ tasks' = tasks
               /\ http'[t].pc = "done"
               /\ http'[t].resp = 404]_vars

(* C6: a webhook without invoiceId or without the status token leaves the  *)
(* store unchanged and is answered 400.                                    *)
C6_MissingFieldAnswered400 ==
    [][\A t \in Threads :
         (/\ WebhookStep(t)
          /\ (http[t].invoice_id = NoId \/ http[t].body = "nostatus"))
            => /\ pending_payments' = pending_payments
               /\ (http'[t].pc = "done" => http'[t].resp = 400)]_vars

(* C7: once a webhook for a pending record whose verification reports      *)
(* FAILED is answered, the record is out of the store and exactly one      *)
(* failure notification for it has been handed off, for the record's chat. *)
C7_FailedStatusNotifies ==
    \A t \in Threads :
        (/\ WebhookDone(t)
         /\ http[t].payment_info # NoInfo
         /\ http[t].verification.status = "FAILED")
            => /\ ~InPending(http[t].invoice_id)
               /\ Cardinality(TasksFor(http[t].invoice_id,
                                       "notify_payment_failed")) = 1
               /\ \A k \in TasksFor(http[t].invoice_id,
                                    "notify_payment_failed") :
                     tasks[k].payment_info.chat_id
                        = http[t].payment_info.chat_id

(* C8: no step of a webhook handler whose verification is neither          *)
(* COMPLETED nor FAILED (PENDING, or nothing returned) changes the store   *)
(* or schedules a notification; when it found the record and has its       *)
(* verification, it answers 200.                                           *)
C8_OtherStatusIgnored ==
    [][\A t \in Threads :
         (/\ WebhookStep(t)
          /\ http[t].body # "malformed"
          /\ http'[t].verification.status \notin {"COMPLETED", "FAILED"})
            => /\ pending_payments' = pending_payments
               /\ tasks' = tasks
               /\ (http[t].pc = "wh_verify"
                     => http'[t].pc = "done" /\ http'[t].resp = 200)]_vars

(* A webhook that found its record still pending, got PENDING from the     *)
(* verify call, and was answered 200 with the record still in the store.   *)
C8_Witness ==
    \E t \in Threads :
        /\ WebhookDone(t)
        /\ http[t].payment_info # NoInfo
        /\ http[t].verification.status = "PENDING"
        /\ http[t].resp = 200
        /\ InPending(http[t].invoice_id)
        /\ tasks = << >>

(* C9: when the gateway has completed a payment and its webhook arrives    *)
(* for the still pending record, a success notification for that record    *)
(* is eventually sent (or the loop has been shut down).                    *)
C9_CompletedEventuallyNotified ==
    \A i \in Ids :
        (\E t \in Threads : /\ http[t].pc = "wh_check"
                            /\ http[t].invoice_id = i
                            /\ InPending(i)
                            /\ gateway[i] = "COMPLETED")
          ~> (\/ loopState = "stopped"
              \/ \E k \in TasksFor(i, "notify_payment_success") :
                    Executed(k))

(* C10: no handed-off task is dropped: a loop that has stopped, and so     *)
(* runs nothing any more, has no task left that it never started.          *)
C10_NoTaskDropped ==
    loopState = "stopped"
        => \A k \in DOMAIN tasks : tasks[k].st # "queued"

(* Thread t takes a step of whichever handler it runs. *)
HttpStep(t) == http'[t] # http[t]

(* C11: the hand-off does not wait for the notification: a webhook that    *)
(* has handed its task off can always go on to delete the record and       *)
(* answer, whatever the state of that task; and nothing the task does      *)
(* later changes the answer.                                               *)
C11_HandOffDoesNotWait ==
    /\ [](\A t \in Threads :
            http[t].pc = "wh_del" => ENABLED WebhookDel(t))
    /\ [][\A t \in Threads :
            http[t].pc = "done" => http'[t] = http[t]]_vars

(* A webhook answered 200, its record gone, its task not yet run. *)
C11_Witness ==
    \E t \in Threads :
        /\ WebhookDone(t)
        /\ http[t].resp = 200
        /\ ~InPending(http[t].invoice_id)
        /\ \E k \in TasksFor(http[t].invoice_id, "notify_payment_success") :
              tasks[k].st = "queued"

(* C13: an invoice id that has been generated and is not in the store      *)
(* (resolved by a webhook or a cancel, or never stored) never enters the   *)
(* store again.                                                            *)
C13_NeverPendingAgain ==
    [][\A i \in Ids :
         (i <= issued /\ ~InPending(i))
            => i \notin DOMAIN pending_payments']_vars

(* An id was resolved and a later pay command has inserted another one. *)
C13_Witness ==
    \E i \in Ids :
        /\ Inserted(i)
        /\ ~InPending(i)
        /\ \E j \in DOMAIN pending_payments : j > i

(* C14: a notification whose send failed stays failed: it is not queued    *)
(* or sent again, its record does not come back, and the failure leaves    *)
(* the loop running with the other tasks as they were.                     *)
C14_FailedSendNotRetried ==
    [][\A k \in DOMAIN tasks :
         /\ tasks[k].st = "sending"
               => tasks'[k].st \in {"sending", "sent", "failed"}
         /\ tasks[k].st = "failed" => tasks'[k] = tasks[k]
         /\ (tasks[k].st = "failed" /\ ~InPending(tasks[k].inv))
               => tasks[k].inv \notin DOMAIN pending_payments'
         /\ (tasks[k].st = "sending" /\ tasks'[k].st = "failed")
               => /\ loopState' = "running"
                  /\ pending_payments' = pending_payments
                  /\ \A j \in DOMAIN tasks' :
                        j # k => j \in DOMAIN tasks /\ tasks'[j] = tasks[j]]_vars

(* One send failed, and the loop has sent a later notification. *)
C14_Witness ==
    \E k, j \in DOMAIN tasks :
        /\ k < j
        /\ tasks[k].st = "failed"
        /\ tasks[j].st = "sent"
        /\ ~InPending(tasks[k].inv)

(* C15: no step of an HTTP thread sends: it leaves every task as it is,    *)
(* and a task it adds is only queued for the loop.                         *)
C15_SendsOnlyOnLoop ==
    [][\A t \in Threads :
         HttpStep(t)
            => \A k \in DOMAIN tasks' :
                  IF k \in DOMAIN tasks
                  THEN tasks'[k] = tasks[k]
                  ELSE tasks'[k].st = "queued"]_vars

(* Both handlers have handed a task off and the loop has sent both. *)
C15_Witness ==
    /\ \E k \in DOMAIN tasks :
          tasks[k].coro = "notify_payment_success" /\ tasks[k].st = "sent"
    /\ \E k \in DOMAIN tasks :
          tasks[k].coro = "notify_payment_cancelled" /\ tasks[k].st = "sent"

(* C17 as stated: an id that has left the store has had its notification   *)
(* sent or attempted.                                                      *)
C17_RemovedAfterSend ==
    \A i \in Ids :
        (Inserted(i) /\ ~InPending(i))
            => \E k \in DOMAIN tasks : tasks[k].inv = i /\ Executed(k)

(* C17 as amended: an id that has left the store has had its notification  *)
(* task handed to the loop.                                                *)
C17_RemovedAfterHandOff ==
    \A i \in Ids :
        (Inserted(i) /\ ~InPending(i))
            => \E k \in DOMAIN tasks : tasks[k].inv = i

(* A record is gone while its notification is still queued. *)
C17_Witness ==
    \E i \in Ids :
        /\ Inserted(i)
        /\ ~InPending(i)
        /\ \A k \in DOMAIN tasks : tasks[k].inv = i => tasks[k].st = "queued"

(* C18: every record in the store has amount > 0 and an invoice id for     *)
(* which the gateway's creation call succeeded.                            *)
C18_StoredRecordsValid ==
    \A i \in DOMAIN pending_payments :
        /\ pending_payments[i].amount > 0
        /\ Inserted(i)

(* The first creation call failed, the second succeeded and is stored. *)
C18_Witness ==
    /\ issued = 2
    /\ gateway[1] = "NONE"
    /\ DOMAIN pending_payments = {2}
    /\ pending_payments[2].amount > 0

(* C12 as stated: every success notification sent goes to the chat of the  *)
(* record and states the amount of the record.                             *)
C12_StatesRecordAmount ==
    \A k \in TasksFor_Sent("notify_payment_success") :
        /\ tasks[k].msg.chat_id = tasks[k].payment_info.chat_id
        /\ tasks[k].msg.amount = tasks[k].payment_info.amount

(* C12 as amended: it goes to the chat of the record and states the amount *)
(* the verification reports, or the record's amount when the verification  *)
(* reports none.                                                           *)
C12_StatesVerifiedAmount ==
    \A k \in TasksFor_Sent("notify_payment_success") :
        /\ tasks[k].msg.chat_id = tasks[k].payment_info.chat_id
        /\ tasks[k].verification.amount # NoAmount
              => tasks[k].msg.amount = tasks[k].verification.amount
        /\ tasks[k].verification.amount = NoAmount
              => tasks[k].msg.amount = tasks[k].payment_info.amount

(* A success notification was sent whose verification reported another     *)
(* amount than the record holds.                                           *)
C12_Witness ==
    \E k \in TasksFor_Sent("notify_payment_success") :
        /\ tasks[k].verification.amount # NoAmount
        /\ tasks[k].verification.amount # tasks[k].payment_info.amount
        /\ tasks[k].msg.amount = tasks[k].verification.amount

(* C16: a .payments reply lists only records whose requester is the user   *)
(* who sent the command.                                                   *)
C16_ListsOwnRecordsOnly ==
    cmd.reply = "list"
        => \A r \in cmd.listed : r.info.user_id = cmd.user_id

(* C19: a .payments command never ends in the error reply: it ends with    *)
(* the listing, or with the notice that nothing is pending.                *)
C19_ListingNeverFails ==
    cmd.pc = "done" => cmd.reply \in {"empty", "list"}

(* C20: what a /webhook request does depends on its invoiceId, the store   *)
(* and the verification response, never on its body: the step that reads   *)
(* the body goes on to the lookup exactly when the id is in the store and  *)
(* answers 200 otherwise, whatever the body, and a success notification is *)
(* scheduled only with a verification that reports COMPLETED.              *)
C20_EffectIndependentOfBody ==
    /\ [][\A t \in Threads :
            (http[t].pc = "wh_check" /\ http'[t] # http[t])
                => http'[t] =
                     IF Known(http[t].invoice_id)
                     THEN [http[t] EXCEPT !.pc = "wh_lookup"]
                     ELSE [http[t] EXCEPT !.pc = "done", !.resp = 200]]_vars
    /\ [](\A k \in DOMAIN tasks :
            tasks[k].coro = "notify_payment_success"
                => tasks[k].verification.status = "COMPLETED")
====
